---- MODULE Spec2Model ----
(***************************************************************************)
(* A model of collectd's statsd plugin (src/statsd.c): the line parser,    *)
(* the metric store behind metrics_lock, the network (listener) thread,    *)
(* the read (flush) callback and the init / shutdown callbacks.            *)
(*                                                                         *)
(* A C string is a sequence of one-character strings.  A pointer that may  *)
(* be NULL is a sequence of length 0 (NULL) or 1 (the object pointed to).  *)
(***************************************************************************)
EXTENDS Integers, Sequences, FiniteSets, TLC

\* ------------------------------------------------------------------ bounds
\* Lines the listener receives in one run, over all datagrams.
MaxLines == 2
\* Addresses getaddrinfo resolves the bind address to.
MaxCandidates == 1
\* Options in the plugin's configuration block.
MaxChildren == 1

\* ------------------------------------------------------- metric_type_e
STATSD_COUNTER == 0
STATSD_TIMER == 1
STATSD_GAUGE == 2
STATSD_SET == 3

\* ------------------------------------------------------------ C strings
DigitVal ==
  [c \in {"0", "1", "2", "3", "4", "5", "6", "7", "8", "9"} |->
     CASE c = "0" -> 0 [] c = "1" -> 1 [] c = "2" -> 2 [] c = "3" -> 3
       [] c = "4" -> 4 [] c = "5" -> 5 [] c = "6" -> 6 [] c = "7" -> 7
       [] c = "8" -> 8 [] c = "9" -> 9]

\* tolower(3) on the letters the inputs use.
ToLower(c) ==
  CASE c = "A" -> "a" [] c = "B" -> "b" [] c = "X" -> "x" [] OTHER -> c

\* The collating rank of a (lower-case) character, as in ASCII.
CharRank(c) ==
  CASE c \in DOMAIN DigitVal -> 48 + DigitVal[c]
    [] c = ":" -> 58
    [] c = "a" -> 97 [] c = "b" -> 98 [] c = "c" -> 99 [] c = "g" -> 103
    [] c = "s" -> 115 [] c = "t" -> 116 [] c = "x" -> 120 [] c = "y" -> 121
    [] OTHER -> 33

LowerStr(s) == [i \in 1..Len(s) |-> ToLower(s[i])]

\* strcasecmp(a, b) == 0
StrCaseEq(a, b) == LowerStr(a) = LowerStr(b)

\* strcasecmp(a, b) < 0
RECURSIVE StrCaseLess(_, _)
StrCaseLess(a, b) ==
  IF b = <<>> THEN FALSE
  ELSE IF a = <<>> THEN TRUE
  ELSE IF CharRank(ToLower(a[1])) # CharRank(ToLower(b[1]))
       THEN CharRank(ToLower(a[1])) < CharRank(ToLower(b[1]))
  ELSE StrCaseLess(Tail(a), Tail(b))

\* strchr: the index of the first c in s, 0 when there is none.
StrChr(s, c) ==
  IF \E i \in 1..Len(s) : s[i] = c
  THEN CHOOSE i \in 1..Len(s) : s[i] = c /\ \A j \in 1..(i - 1) : s[j] # c
  ELSE 0

\* strrchr: the index of the last c in s, 0 when there is none.
StrRChr(s, c) ==
  IF \E i \in 1..Len(s) : s[i] = c
  THEN CHOOSE i \in 1..Len(s) : s[i] = c /\ \A j \in (i + 1)..Len(s) : s[j] # c
  ELSE 0

\* ssnprintf (key, sizeof (key), "<tag>:%s", name), for names that fit.
MakeKey_notag(tag, name) == <<"c", ":">> \o name
MakeKey(tag, name) == <<tag, ":">> \o name

\* name + 2: the key without its "<tag>:" prefix.
StripTag(key) == SubSeq(key, 3, Len(key))

\* ---------------------------------------------------------- parse_value
RECURSIVE DigitsValue(_)
DigitsValue(s) ==
  IF s = <<>> THEN 0
  ELSE 10 * DigitsValue(SubSeq(s, 1, Len(s) - 1)) + DigitVal[s[Len(s)]]

AllDigits(s) == Len(s) > 0 /\ \A i \in 1..Len(s) : s[i] \in DOMAIN DigitVal

\* parse_value (str, &v, DS_TYPE_DERIVE): an optionally signed decimal integer.
parse_value_derive(s) ==
  LET signed == Len(s) > 0 /\ s[1] \in {"+", "-"}
      body == IF signed THEN Tail(s) ELSE s
  IN IF AllDigits(body)
     THEN [status |-> 0,
           derive |-> IF signed /\ s[1] = "-" THEN 0 - DigitsValue(body)
                      ELSE DigitsValue(body)]
     ELSE [status |-> -1, derive |-> 0]

RECURSIVE Pow10(_)
Pow10(n) == IF n = 0 THEN 1 ELSE 10 * Pow10(n - 1)

\* parse_value (str, &v, DS_TYPE_GAUGE): an unsigned decimal with an optional
\* fraction, kept as the exact ratio num / den.
parse_value_gauge(s) ==
  LET dot == StrChr(s, ".")
      int == IF dot = 0 THEN s ELSE SubSeq(s, 1, dot - 1)
      frac == IF dot = 0 THEN <<>> ELSE SubSeq(s, dot + 1, Len(s))
  IN IF AllDigits(int) /\ (dot = 0 \/ AllDigits(frac))
     THEN [status |-> 0,
           num |-> DigitsValue(int) * Pow10(Len(frac)) + DigitsValue(frac),
           den |-> Pow10(Len(frac))]
     ELSE [status |-> -1, num |-> 0, den |-> 1]

\* ------------------------------------------------------- the metric store
\* A statsd_metric_t.  set is NULL (<<>>) or the tree of member strings (<<S>>).
Metric(type, value, set, updates_num) ==
  [type |-> type, value |-> value, set |-> set, updates_num |-> updates_num]

\* c_avl_get (metrics_tree, name, &metric) == 0; the tree compares with strcasecmp.
HasKey(tree, name) == \E k \in DOMAIN tree : StrCaseEq(k, name)
FindKey(tree, name) == CHOOSE k \in DOMAIN tree : StrCaseEq(k, name)

\* c_avl_insert (metrics_tree, key, metric) of a key that is not in the tree.
TreeInsert(tree, key, metric) ==
  [k \in DOMAIN tree \cup {key} |-> IF k = key THEN metric ELSE tree[k]]

\* c_avl_remove (metrics_tree, key, ...): the tree without the key.
c_avl_remove(tree, key) ==
  LET keep == {k \in DOMAIN tree : ~StrCaseEq(k, key)}
  IN [k \in keep |-> tree[k]]

\* The places where an allocation can fail while a sample is applied.
AllocFaults ==
  {"ok", "strdup_key", "calloc", "avl_insert", "avl_create", "strdup_name",
   "set_insert"}

\* statsd_metric_set_unsafe: [status, tree] after the call.
statsd_metric_set_unsafe_accumulate(tree, name, value, type, alloc) ==
  IF HasKey(tree, name)
  THEN [status |-> 0,
        tree |-> [tree EXCEPT ![FindKey(tree, name)] =
                    [@ EXCEPT !.value = @ + value,
                              !.updates_num = @ + 1]]]
  ELSE IF alloc \in {"strdup_key", "calloc", "avl_insert"}
       THEN [status |-> -1, tree |-> tree]
  ELSE [status |-> 0,
        tree |-> TreeInsert(tree, name, Metric(type, value, <<>>, 1))]
statsd_metric_set_unsafe(tree, name, value, type, alloc) ==
  IF HasKey(tree, name)
  THEN [status |-> 0,
        tree |-> [tree EXCEPT ![FindKey(tree, name)] =
                    [@ EXCEPT !.value = value,
                              !.updates_num = @ + 1]]]
  ELSE IF alloc \in {"strdup_key", "calloc", "avl_insert"}
       THEN [status |-> -1, tree |-> tree]
  ELSE [status |-> 0,
        tree |-> TreeInsert(tree, name, Metric(type, value, <<>>, 1))]

\* statsd_metric_add, between its lock and its unlock.
statsd_metric_add_overwrite(tree, name, delta, type, alloc) ==
  statsd_metric_set_unsafe(tree, name, delta, type, alloc)
statsd_metric_add(tree, name, delta, type, alloc) ==
  IF HasKey(tree, name)
  THEN [status |-> 0,
        tree |-> [tree EXCEPT ![FindKey(tree, name)] =
                    [@ EXCEPT !.value = @ + delta,
                              !.updates_num = @ + 1]]]
  ELSE statsd_metric_set_unsafe(tree, name, delta, type, alloc)

\* c_avl_insert (metric->set, name, NULL) into the member tree (strcmp).
set_insert(members, name) == members \cup {name}

\* statsd_handle_set, between its lock and its unlock: key is "s:<key_orig>".
statsd_handle_set(tree, key, name_orig, alloc) ==
  IF ~HasKey(tree, key) /\ alloc \in {"strdup_key", "calloc", "avl_insert"}
  THEN [status |-> -1, tree |-> tree]
  ELSE
    LET t1 == IF HasKey(tree, key) THEN tree
              ELSE TreeInsert(tree, key, Metric(STATSD_SET, 0, <<>>, 0))
        k == FindKey(t1, key)
        created == t1[k].set = <<>>
    IN IF created /\ alloc = "avl_create"
       THEN [status |-> -1, tree |-> t1]
       ELSE
         LET t2 == IF created THEN [t1 EXCEPT ![k].set = <<{}>>] ELSE t1
         IN IF alloc = "strdup_name"
            THEN [status |-> -1, tree |-> t2]
            ELSE IF alloc = "set_insert" /\ name_orig \notin t2[k].set[1]
            THEN [status |-> -1, tree |-> t2]
            ELSE [status |-> 0,
                  tree |-> [t2 EXCEPT
                              ![k].set = <<set_insert(@[1], name_orig)>>,
                              ![k].updates_num = @ + 1]]

\* ------------------------------------------------------------ line parser
\* What a line asks of the store: fn is "none" (the line failed with status),
\* "metric_add", "metric_set" or "handle_set".
Call(fn, status, key, value, member, type) ==
  [fn |-> fn, status |-> status, key |-> key, value |-> value,
   member |-> member, type |-> type]
NoCall(status) == Call("none", status, <<>>, 0, <<>>, STATSD_COUNTER)

\* statsd_handle_counter, up to its call of statsd_metric_add.
statsd_handle_counter_any(name, value_str, extra) ==
  LET value == parse_value_derive(value_str)
  IN IF value.status # 0 THEN NoCall(value.status)
     ELSE Call("metric_add", 0, MakeKey("c", name), value.derive, <<>>,
               STATSD_COUNTER)
statsd_handle_counter(name, value_str, extra) ==
  IF extra # <<>> /\ (extra[1] = <<>> \/ extra[1][1] # "@") THEN NoCall(-1)
  ELSE
    LET scale == IF extra # <<>> THEN parse_value_gauge(Tail(extra[1]))
                 ELSE [status |-> 0, num |-> 1, den |-> 1]
        value == parse_value_derive(value_str)
    IN IF scale.status # 0 THEN NoCall(scale.status)
       ELSE IF scale.num <= 0 \/ scale.num > scale.den THEN NoCall(-1)
       ELSE IF value.status # 0 THEN NoCall(value.status)
       ELSE IF value.derive < 1 THEN NoCall(-1)
       ELSE Call("metric_add", 0, MakeKey("c", name),
                 (value.derive * scale.den) \div scale.num, <<>>,
                 STATSD_COUNTER)

\* statsd_handle_gauge, up to its call of statsd_metric_add / statsd_metric_set.
statsd_handle_gauge(name, value_str) ==
  LET value == parse_value_derive(value_str)
  IN IF value.status # 0 THEN NoCall(value.status)
     ELSE IF value_str[1] = "+" \/ value_str[1] = "-"
     THEN Call("metric_add", 0, MakeKey("g", name), value.derive, <<>>,
               STATSD_GAUGE)
     ELSE Call("metric_set", 0, MakeKey("g", name), value.derive, <<>>,
               STATSD_GAUGE)

\* statsd_handle_timer, up to its call of statsd_metric_add.
statsd_handle_timer(name, value_str) ==
  LET value == parse_value_derive(value_str)
  IN IF value.status # 0 THEN NoCall(value.status)
     ELSE Call("metric_add", 0, MakeKey("t", name), value.derive, <<>>,
               STATSD_TIMER)

\* The pointers statsd_parse_line sets into the line, lines 325-347: the
\* places of the first "|" and of the last ":" before it (0: none), and the
\* name, value, type and extra (NULL or a string) they cut out.
LineFields(buffer) ==
  LET bar == StrChr(buffer, "|")
      head == SubSeq(buffer, 1, bar - 1)
      rest == SubSeq(buffer, bar + 1, Len(buffer))
      colon == StrRChr(head, ":")
      bar2 == StrChr(rest, "|")
  IN [bar |-> bar,
      colon |-> colon,
      name |-> SubSeq(head, 1, colon - 1),
      value |-> SubSeq(head, colon + 1, Len(head)),
      type |-> IF bar2 = 0 THEN rest ELSE SubSeq(rest, 1, bar2 - 1),
      extra |-> IF bar2 = 0 THEN <<>>
                ELSE <<SubSeq(rest, bar2 + 1, Len(rest))>>]

\* statsd_parse_line, up to the store call of the handler it dispatches to.
statsd_parse_line(buffer) ==
  LET f == LineFields(buffer)
  IN IF f.bar = 0 THEN NoCall(-1)
     ELSE IF f.colon = 0 THEN NoCall(-1)
     ELSE IF f.type = <<"c">>
     THEN statsd_handle_counter(f.name, f.value, f.extra)
     ELSE IF f.extra # <<>> THEN NoCall(-1)
     ELSE IF f.type = <<"g">> THEN statsd_handle_gauge(f.name, f.value)
     ELSE IF f.type = <<"m", "s">> THEN statsd_handle_timer(f.name, f.value)
     ELSE IF f.type = <<"s">>
     THEN Call("handle_set", 0, MakeKey("s", f.name), 0, f.value, STATSD_SET)
     ELSE NoCall(-1)

\* strtok_r (buffer, "\r\n", &saveptr): <<>> at the end of the buffer, else
\* <<token, rest>>.
IsEol(c) == c = "\n" \/ c = "\r"
RECURSIVE SkipEol(_)
SkipEol(s) == IF s # <<>> /\ IsEol(s[1]) THEN SkipEol(Tail(s)) ELSE s
strtok_r(buffer) ==
  LET s == SkipEol(buffer)
      stops == {i \in 1..Len(s) : IsEol(s[i])}
      end == IF stops = {} THEN Len(s) + 1
             ELSE CHOOSE i \in stops : \A j \in stops : i <= j
  IN IF s = <<>> THEN <<>>
     ELSE <<SubSeq(s, 1, end - 1), SubSeq(s, end + 1, Len(s))>>

\* ------------------------------------------------------------ the inputs
\* The lines a datagram is made of: a sample of each kind, a sampled counter,
\* a gauge set and a gauge moved, two members of one set under names that
\* differ in case only.
Lines ==
  { <<"a", ":", "2", "|", "c", "|", "@", "0", ".", "5">>,
    <<"a", ":", "4", "|", "m", "s">>,
    <<"a", ":", "7", "|", "g">>,
    <<"a", ":", "-", "3", "|", "g">>,
    <<"a", ":", "x", "|", "s">>,
    <<"A", ":", "y", "|", "s">> }

RECURSIVE JoinLines(_)
JoinLines(ls) ==
  IF ls = <<>> THEN <<>> ELSE Head(ls) \o <<"\n">> \o JoinLines(Tail(ls))

\* The payloads of n lines out of lines, each line ended by a newline.
DatagramsOf(lines, n) == {JoinLines(ls) : ls \in [1..n -> lines]}
Datagrams(n) == DatagramsOf(Lines, n)

\* Lines that statsd_parse_line turns down, one for each of its failure
\* returns and for each of those of statsd_handle_counter and parse_value.
BadLines ==
  { <<"a", "|", "c">>,
    <<"a", ":", "2">>,
    <<"a", ":", "2", "|", "x">>,
    <<"a", ":", "7", "|", "g", "|", "@", "0", ".", "5">>,
    <<"a", ":", "2", "|", "c", "|", "0", ".", "5">>,
    <<"a", ":", "2", "|", "c", "|", "@", "2">>,
    <<"a", ":", "2", "|", "c", "|", "@", "0">>,
    <<"a", ":", "x", "|", "g">>,
    <<"a", ":", "x", "|", "m", "s">>,
    <<"a", ":", "0", "|", "c">> }

\* The lines of the datagrams the parser is exercised with.
ParseLines == Lines \cup BadLines

\* ------------------------------------------------------------- the state
VARIABLES
  metrics_tree,             \* the store: key -> statsd_metric_t
  tree_null,                \* metrics_tree == NULL
  metrics_lock,             \* the owner of metrics_lock, or "free"
  network_thread_running,
  network_thread_shutdown,
  conf_delete,              \* conf_delete_counters/timers/gauges/sets, by type
  sigterm,                  \* a SIGTERM sent to the network thread, not yet delivered
  host_pc,                  \* the host thread calling config, init and shutdown
  net_pc,                   \* the network thread
  fds_num,                  \* the sockets the network thread has open
  ready,                    \* sockets poll reported readable, not yet read
  buffer,                   \* the rest of the datagram being parsed
  call,                     \* the store call the current line makes
  read_pc,                  \* the host's read thread inside statsd_read
  to_be_deleted,
  emitted,                  \* the value lists dispatched by the flush in progress
  nlines,                   \* lines received so far
  hist,                     \* per record: what was applied to it (history)
  audit,                    \* per value in emitted: the record's history then
  startStore,               \* the store as the flush in progress found it
  evicted,                  \* the keys a flush has removed so far
  leaked,                   \* allocations no pointer leads to, never freed
  datagram,                 \* the payload recv returned last (history)
  dstore,                   \* the store when that payload was received
  allocs                    \* the outcome of each store call made for it

vars ==
  <<metrics_tree, tree_null, metrics_lock, network_thread_running,
    network_thread_shutdown, conf_delete, sigterm, host_pc, net_pc, fds_num,
    ready, buffer, call, read_pc, to_be_deleted, emitted, nlines,
    hist, audit, startStore, evicted, leaked, datagram, dstore, allocs>>

storeVars == <<metrics_tree, hist, leaked>>
parseVars == <<datagram, dstore, allocs>>
hostVars == <<tree_null, network_thread_running, network_thread_shutdown,
              conf_delete, host_pc>>
netVars == <<net_pc, fds_num, ready, buffer, call, nlines, parseVars>>
readVars == <<read_pc, to_be_deleted, emitted, audit,
              startStore, evicted>>

Types == {STATSD_COUNTER, STATSD_TIMER, STATSD_GAUGE, STATSD_SET}

Init ==
  /\ metrics_tree = <<>>
  /\ tree_null = TRUE
  /\ metrics_lock = "free"
  /\ network_thread_running = FALSE
  /\ network_thread_shutdown = FALSE
  /\ conf_delete = [t \in Types |-> FALSE]
  /\ sigterm = FALSE
  /\ host_pc = "start"
  /\ net_pc = "none"
  /\ fds_num = 0
  /\ ready = 0
  /\ buffer = <<>>
  /\ call = NoCall(0)
  /\ read_pc = "idle"
  /\ to_be_deleted = <<>>
  /\ emitted = <<>>
  /\ nlines = 0
  /\ hist = <<>>
  /\ audit = <<>>
  /\ startStore = <<>>
  /\ evicted = {}
  /\ leaked = 0
  /\ datagram = <<>>
  /\ dstore = <<>>
  /\ allocs = <<>>

\* pthread_mutex_lock (&metrics_lock) by thread t: blocks while it is held.
pthread_mutex_lock_nowait(t) == metrics_lock' = t
pthread_mutex_lock(t) == metrics_lock = "free" /\ metrics_lock' = t

pthread_mutex_unlock_keep == UNCHANGED metrics_lock
pthread_mutex_unlock == metrics_lock' = "free"

\* ------------------------------------------------------------- history
FreshHist ==
  [applied |-> 0, total |-> 0, wsum |-> 0, wcnt |-> 0, wmem |-> {},
   gabs |-> <<>>]

\* The history of a record after the store call c succeeded on it.
HistApply(h, c) ==
  [applied |-> h.applied + 1,
   total |-> h.total + c.value,
   wsum |-> h.wsum + c.value,
   wcnt |-> h.wcnt + 1,
   wmem |-> IF c.fn = "handle_set" THEN h.wmem \cup {c.member} ELSE h.wmem,
   gabs |-> IF c.fn = "metric_set" THEN <<c.value>>
            ELSE IF h.gabs # <<>> THEN <<h.gabs[1] + c.value>>
            ELSE <<>>]

\* The histories after store call c ended with status and left the store tree.
HistAfter(h, tree, c, status) ==
  [k \in DOMAIN tree |->
     LET old == IF k \in DOMAIN h THEN h[k] ELSE FreshHist
     IN IF status = 0 /\ StrCaseEq(k, c.key) THEN HistApply(old, c) ELSE old]

\* The history of a record entering a new window.
HistFlush(h) == [h EXCEPT !.wsum = 0, !.wcnt = 0, !.wmem = {}]

\* ----------------------------------------------------- the network thread
BindOutcomes == {"socket_failed", "bind_failed", "realloc_failed", "bound"}

\* statsd_network_init: the number of sockets bound, given what happened to
\* each candidate address.
statsd_network_init(outcomes) ==
  Cardinality({i \in DOMAIN outcomes : outcomes[i] = "bound"})

\* statsd_network_thread up to its loop: no socket makes the thread exit.
NetInit ==
  /\ net_pc = "network_init"
  /\ \E n \in 0..MaxCandidates :
       \E outcomes \in [1..n -> BindOutcomes] :
         /\ fds_num' = statsd_network_init(outcomes)
         /\ net_pc' = IF fds_num' = 0 THEN "exited" ELSE "while"
  /\ UNCHANGED <<storeVars, hostVars, readVars, parseVars, metrics_lock,
                 sigterm, ready, buffer, call, nlines>>

\* Where the thread goes on after a line or a datagram: the next line of the
\* buffer, the next readable socket, or the while of the loop.
NextPc(buf, rdy) ==
  IF strtok_r(buf) # <<>> THEN "parse" ELSE IF rdy > 0 THEN "read" ELSE "while"

\* while (!network_thread_shutdown); once the flag is seen the sockets are
\* closed and the thread returns.
NetWhile ==
  /\ net_pc = "while"
  /\ IF network_thread_shutdown
     THEN net_pc' = "exited" /\ fds_num' = 0
     ELSE net_pc' = "poll" /\ UNCHANGED fds_num
  /\ UNCHANGED <<storeVars, hostVars, readVars, parseVars, metrics_lock, sigterm,
                 ready, buffer, call, nlines>>

\* The thread enters poll(2) and blocks.
NetPoll ==
  /\ net_pc = "poll"
  /\ net_pc' = "wait"
  /\ UNCHANGED <<storeVars, hostVars, readVars, parseVars, metrics_lock, sigterm,
                 fds_num, ready, buffer, call, nlines>>

\* poll returns: some sockets are readable.
NetPollReady ==
  /\ net_pc = "wait"
  /\ nlines < MaxLines
  /\ \E r \in 1..fds_num : ready' = r
  /\ net_pc' = "read"
  /\ UNCHANGED <<storeVars, hostVars, readVars, parseVars, metrics_lock, sigterm,
                 fds_num, buffer, call, nlines>>

\* poll fails with an error other than EINTR / EAGAIN: break, the sockets are
\* closed and the thread returns.
NetPollError ==
  /\ net_pc = "wait"
  /\ net_pc' = "exited"
  /\ fds_num' = 0
  /\ UNCHANGED <<storeVars, hostVars, readVars, parseVars, metrics_lock, sigterm,
                 ready, buffer, call, nlines>>

\* The SIGTERM of pthread_kill reaches the thread: a blocked poll returns EINTR
\* (continue); anywhere else the handler runs and the thread goes on.
SignalDeliver ==
  /\ sigterm
  /\ net_pc \notin {"none", "exited"}
  /\ sigterm' = FALSE
  /\ net_pc' = IF net_pc = "wait" THEN "while" ELSE net_pc
  /\ UNCHANGED <<storeVars, hostVars, readVars, parseVars, metrics_lock,
                 fds_num, ready, buffer, call, nlines>>

\* statsd_network_read: recv fails, nothing is parsed.
NetRecvFail ==
  /\ net_pc = "read"
  /\ ready > 0
  /\ ready' = ready - 1
  /\ net_pc' = NextPc(<<>>, ready')
  /\ UNCHANGED <<storeVars, hostVars, readVars, parseVars, metrics_lock, sigterm,
                 fds_num, buffer, call, nlines>>

\* statsd_network_read: recv returns the datagram d of n lines,
\* statsd_parse_buffer starts.
statsd_network_read(d, n) ==
  /\ net_pc = "read"
  /\ ready > 0
  /\ ready' = ready - 1
  /\ buffer' = d
  /\ nlines' = nlines + n
  /\ net_pc' = NextPc(d, ready')
  /\ UNCHANGED <<storeVars, hostVars, readVars, metrics_lock, sigterm,
                 fds_num, call>>

NetRecv ==
  /\ net_pc = "read"
  /\ \E n \in 0..(MaxLines - nlines) :
       \E d \in Datagrams(n) : statsd_network_read(d, n)
  /\ UNCHANGED parseVars

\* statsd_parse_buffer: the next line is parsed; a line that fails is logged,
\* a line that parses goes on to lock the store.
NetParseLine_break ==
  /\ net_pc = "parse"
  /\ LET tok == strtok_r(buffer)
         c == statsd_parse_line(tok[1])
     IN /\ buffer' = IF c.fn = "none" \/ strtok_r(tok[2]) = <<>> THEN <<>>
                     ELSE tok[2]
        /\ call' = IF c.fn = "none" THEN NoCall(0) ELSE c
        /\ net_pc' = IF c.fn = "none" THEN NextPc(<<>>, ready) ELSE "lock"
  /\ UNCHANGED <<storeVars, hostVars, readVars, parseVars, metrics_lock, sigterm,
                 fds_num, ready, nlines>>
NetParseLine ==
  /\ net_pc = "parse"
  /\ LET tok == strtok_r(buffer)
         c == statsd_parse_line(tok[1])
     IN /\ buffer' = IF strtok_r(tok[2]) = <<>> THEN <<>> ELSE tok[2]
        /\ call' = IF c.fn = "none" THEN NoCall(0) ELSE c
        /\ net_pc' = IF c.fn = "none" THEN NextPc(tok[2], ready) ELSE "lock"
  /\ UNCHANGED <<storeVars, hostVars, readVars, parseVars, metrics_lock, sigterm,
                 fds_num, ready, nlines>>

\* pthread_mutex_lock in statsd_metric_set, statsd_metric_add, statsd_handle_set.
NetLock ==
  /\ net_pc = "lock"
  /\ pthread_mutex_lock("net")
  /\ net_pc' = "locked"
  /\ UNCHANGED <<storeVars, hostVars, readVars, parseVars, sigterm, fds_num,
                 ready, buffer, call, nlines>>

\* The store call of the current line, [status, tree] after it.
StoreCall(tree, c, alloc) ==
  CASE c.fn = "metric_add" ->
         statsd_metric_add(tree, c.key, c.value, c.type, alloc)
    [] c.fn = "metric_set" ->
         statsd_metric_set_unsafe(tree, c.key, c.value, c.type, alloc)
    [] c.fn = "handle_set" ->
         statsd_handle_set(tree, c.key, c.member, alloc)

\* The body of the store call under the lock, with the allocations ending as
\* alloc says, and its unlock.
ApplyCall(alloc) ==
  /\ net_pc = "locked"
  /\ LET r == StoreCall(metrics_tree, call, alloc)
     IN /\ metrics_tree' = r.tree
        /\ hist' = HistAfter(hist, r.tree, call, r.status)
  /\ call' = NoCall(0)
  /\ pthread_mutex_unlock
  /\ net_pc' = NextPc(buffer, ready)
  /\ UNCHANGED <<hostVars, readVars, sigterm, fds_num, ready, buffer, nlines,
                 leaked>>

NetApply ==
  /\ net_pc = "locked"
  /\ \E alloc \in AllocFaults : ApplyCall(alloc)
  /\ UNCHANGED parseVars

\* The allocation outcome noted for a store call: the first of those that
\* leave the call with the same status and the same store.
NotedAlloc(tree, c, alloc) ==
  LET same == {a \in AllocFaults : StoreCall(tree, c, a) = StoreCall(tree, c, alloc)}
      order == <<"ok", "strdup_key", "calloc", "avl_insert", "avl_create",
                 "strdup_name", "set_insert">>
  IN order[CHOOSE i \in DOMAIN order :
             order[i] \in same /\ \A j \in 1..(i - 1) : order[j] \notin same]

\* The same two steps with the payload, the store it found and the outcome of
\* each store call noted, for payloads made of any of ParseLines.
ParseRecv ==
  /\ net_pc = "read"
  /\ \E n \in 1..(MaxLines - nlines) :
       \E d \in DatagramsOf(ParseLines, n) :
         /\ statsd_network_read(d, n)
         /\ datagram' = d
  /\ dstore' = metrics_tree
  /\ allocs' = <<>>

ParseApply ==
  /\ net_pc = "locked"
  /\ \E alloc \in AllocFaults :
       /\ ApplyCall(alloc)
       /\ allocs' = Append(allocs, NotedAlloc(metrics_tree, call, alloc))
  /\ UNCHANGED <<datagram, dstore>>

\* ------------------------------------------------------------ statsd_read
\* The keys in the order c_avl_iterator_next returns them.
RECURSIVE SortedKeys(_)
SortedKeys(keys) ==
  IF keys = {} THEN <<>>
  ELSE LET first == CHOOSE k \in keys :
                      \A o \in keys \ {k} : StrCaseLess(k, o)
       IN <<first>> \o SortedKeys(keys \ {first})

\* The test of lines 699-703: an idle metric of a kind that is to be deleted.
ShouldDelete_idle(metric) == metric.updates_num = 0
ShouldDelete(metric) == metric.updates_num = 0 /\ conf_delete[metric.type]

\* A value list handed to plugin_dispatch_values: the value is num / den, or NAN.
ValueList(name, type, nan, num, den) ==
  [plugin |-> "statsd", type |-> type, type_instance |-> name,
   nan |-> nan, num |-> num, den |-> den]

\* statsd_metric_submit_unsafe: the value list it dispatches.
statsd_metric_submit_unsafe_zero(name, metric) ==
  IF metric.type = STATSD_GAUGE
  THEN ValueList(name, "gauge", FALSE, metric.value, 1)
  ELSE IF metric.type = STATSD_TIMER
  THEN IF metric.updates_num = 0
       THEN ValueList(name, "latency", FALSE, 0, 1)
       ELSE ValueList(name, "latency", FALSE, metric.value, metric.updates_num)
  ELSE IF metric.type = STATSD_SET
  THEN ValueList(name, "objects", FALSE, IF metric.set = <<>> THEN 0 ELSE Cardinality(metric.set[1]), 1)
  ELSE ValueList(name, "derive", FALSE, metric.value, 1)
statsd_metric_submit_unsafe(name, metric) ==
  IF metric.type = STATSD_GAUGE
  THEN ValueList(name, "gauge", FALSE, metric.value, 1)
  ELSE IF metric.type = STATSD_TIMER
  THEN IF metric.updates_num = 0
       THEN ValueList(name, "latency", TRUE, 0, 1)
       ELSE ValueList(name, "latency", FALSE, metric.value, metric.updates_num)
  ELSE IF metric.type = STATSD_SET
  THEN IF metric.set = <<>>
       THEN ValueList(name, "objects", FALSE, 0, 1)
       ELSE ValueList(name, "objects", FALSE, Cardinality(metric.set[1]), 1)
  ELSE ValueList(name, "derive", FALSE, metric.value, 1)

\* statsd_metric_clear_set_unsafe: every member is picked out of the set.
statsd_metric_clear_set_unsafe_keep(metric) == metric
statsd_metric_clear_set_unsafe(metric) ==
  IF metric.type # STATSD_SET \/ metric.set = <<>> THEN metric
  ELSE [metric EXCEPT !.set = <<{}>>]

\* "Reset the metric", lines 714-717.
ResetMetric_keep(metric) ==
  IF metric.type = STATSD_SET THEN statsd_metric_clear_set_unsafe(metric)
  ELSE metric
ResetMetric_value(metric) ==
  LET m == [metric EXCEPT !.updates_num = 0, !.value = 0]
  IN IF m.type = STATSD_SET THEN statsd_metric_clear_set_unsafe(m) ELSE m
ResetMetric(metric) ==
  LET m == [metric EXCEPT !.updates_num = 0]
  IN IF m.type = STATSD_SET THEN statsd_metric_clear_set_unsafe(m) ELSE m

\* What sfree (name) and sfree (metric) leave allocated of a record taken out
\* of the tree: the member tree a set points to, and its member strings.
Owned(metric) ==
  IF metric.set = <<>> THEN 0 ELSE 1 + Cardinality(metric.set[1])

\* The same, summed over the records with the keys given.
RECURSIVE Unreleased(_, _)
Unreleased(tree, keys) ==
  IF keys = {} THEN 0
  ELSE LET k == CHOOSE x \in keys : TRUE
       IN Owned(tree[k]) + Unreleased(tree, keys \ {k})

\* The deletion loop of lines 721-736 over the keys still to remove.
RemoveAll_none(tree, keys) == tree
RECURSIVE RemoveAll(_, _)
RemoveAll(tree, keys) ==
  IF keys = <<>> THEN tree
  ELSE RemoveAll(c_avl_remove(tree, Head(keys)), Tail(keys))

\* pthread_mutex_lock at the top of statsd_read.
ReadLock ==
  /\ read_pc = "idle"
  /\ pthread_mutex_lock("read")
  /\ read_pc' = "begin"
  /\ UNCHANGED <<storeVars, hostVars, netVars, sigterm, to_be_deleted,
                 emitted, audit, startStore, evicted>>

\* metrics_tree == NULL: unlock and return.
ReadNoTree ==
  /\ read_pc = "begin"
  /\ tree_null
  /\ pthread_mutex_unlock
  /\ read_pc' = "idle"
  /\ UNCHANGED <<storeVars, hostVars, netVars, sigterm, to_be_deleted,
                 emitted, audit, startStore, evicted>>

\* The while loop of lines 697-718 over the keys the iterator returns: each
\* metric is noted for deletion, or submitted and reset.  f holds the tree, the
\* histories, the value lists dispatched and the keys noted so far.
RECURSIVE ReadLoop(_, _)
ReadLoop(f, keys) ==
  IF keys = <<>> THEN f
  ELSE
    LET name == Head(keys)
        metric == f.tree[name]
    IN IF ShouldDelete(metric)
       THEN ReadLoop([f EXCEPT !.deleted = Append(@, name)], Tail(keys))
       ELSE ReadLoop(
              [tree |-> [f.tree EXCEPT ![name] = ResetMetric(metric)],
               hist |-> [f.hist EXCEPT ![name] = HistFlush(@)],
               emitted |-> Append(f.emitted,
                  statsd_metric_submit_unsafe(StripTag(name), metric)),
               audit |-> Append(f.audit, [key |-> name, h |-> f.hist[name]]),
               deleted |-> f.deleted],
              Tail(keys))

\* c_avl_get_iterator and the iteration.
ReadIterate ==
  /\ read_pc = "begin"
  /\ ~tree_null
  /\ LET f == ReadLoop([tree |-> metrics_tree, hist |-> hist,
                        emitted |-> <<>>, audit |-> <<>>, deleted |-> <<>>],
                       SortedKeys(DOMAIN metrics_tree))
     IN /\ metrics_tree' = f.tree
        /\ hist' = f.hist
        /\ emitted' = f.emitted
        /\ audit' = f.audit
        /\ to_be_deleted' = f.deleted
  /\ startStore' = metrics_tree
  /\ read_pc' = "delete"
  /\ UNCHANGED <<hostVars, netVars, sigterm, metrics_lock, evicted, leaked>>

\* The iteration is over: the noted metrics are removed and freed.
ReadDelete ==
  /\ read_pc = "delete"
  /\ metrics_tree' = RemoveAll(metrics_tree, to_be_deleted)
  /\ hist' = [k \in DOMAIN metrics_tree' |-> hist[k]]
  /\ evicted' = evicted \cup {to_be_deleted[i] : i \in DOMAIN to_be_deleted}
  /\ leaked' = leaked + Unreleased(metrics_tree,
                                   DOMAIN metrics_tree \ DOMAIN metrics_tree')
  /\ read_pc' = "unlock"
  /\ UNCHANGED <<hostVars, netVars, sigterm, metrics_lock, to_be_deleted, emitted, audit, startStore>>

\* pthread_mutex_unlock, strarray_free, return.
ReadUnlock ==
  /\ read_pc = "unlock"
  /\ pthread_mutex_unlock
  /\ to_be_deleted' = <<>>
  /\ emitted' = <<>>
  /\ audit' = <<>>
  /\ startStore' = <<>>
  /\ read_pc' = "idle"
  /\ UNCHANGED <<storeVars, hostVars, netVars, sigterm, evicted>>

\* ------------------------------------------- config, init and shutdown
\* The Delete* options, by the type whose switch each sets.
DeleteOptions ==
  [DeleteCounters |-> STATSD_COUNTER, DeleteTimers |-> STATSD_TIMER,
   DeleteGauges |-> STATSD_GAUGE, DeleteSets |-> STATSD_SET]

\* The loop of statsd_config over the children of the block.
RECURSIVE ConfigChildren(_, _)
ConfigChildren(conf, children) ==
  IF children = <<>> THEN conf
  ELSE ConfigChildren(
         [conf EXCEPT ![DeleteOptions[Head(children).key]] =
            Head(children).value],
         Tail(children))

\* statsd_config, called with the plugin's block.
statsd_config ==
  /\ host_pc = "start"
  /\ \E n \in 0..MaxChildren :
       \E children \in [1..n -> [key : DOMAIN DeleteOptions,
                                 value : BOOLEAN]] :
         conf_delete' = ConfigChildren(conf_delete, children)
  /\ host_pc' = "configured"
  /\ UNCHANGED <<storeVars, netVars, readVars, sigterm, metrics_lock,
                 tree_null, network_thread_running, network_thread_shutdown>>

\* pthread_mutex_lock at the top of statsd_init.
InitLock ==
  /\ host_pc \in {"start", "configured"}
  /\ pthread_mutex_lock("host")
  /\ host_pc' = "init"
  /\ UNCHANGED <<storeVars, netVars, readVars, sigterm, tree_null,
                 network_thread_running, network_thread_shutdown, conf_delete>>

\* statsd_init: the tree is created; pthread_create fails.
InitFail ==
  /\ host_pc = "init"
  /\ ~network_thread_running
  /\ tree_null' = FALSE
  /\ pthread_mutex_unlock
  /\ host_pc' = "init_failed"
  /\ UNCHANGED <<storeVars, netVars, readVars, sigterm,
                 network_thread_running, network_thread_shutdown, conf_delete>>

\* statsd_init: the tree is created and the network thread started.
InitDone ==
  /\ host_pc = "init"
  /\ tree_null' = FALSE
  /\ net_pc' = IF network_thread_running THEN net_pc ELSE "network_init"
  /\ network_thread_running' = TRUE
  /\ pthread_mutex_unlock
  /\ host_pc' = "running"
  /\ UNCHANGED <<storeVars, readVars, parseVars, sigterm, fds_num, ready,
                 buffer, call, nlines, network_thread_shutdown, conf_delete>>

\* statsd_shutdown up to its pthread_join: the lock is taken, the flag is set
\* and the network thread is sent SIGTERM.  The host calls shutdown only after
\* an init that succeeded, so network_thread_running holds.
ShutdownLock ==
  /\ host_pc = "running"
  /\ network_thread_running
  /\ pthread_mutex_lock("host")
  /\ network_thread_shutdown' = TRUE
  /\ sigterm' = (net_pc # "exited")
  /\ host_pc' = "join"
  /\ UNCHANGED <<storeVars, netVars, readVars, tree_null,
                 network_thread_running, conf_delete>>

\* pthread_join returns once the network thread has exited; the store is
\* emptied and destroyed and the lock released.
ShutdownJoin ==
  /\ host_pc = "join"
  /\ net_pc = "exited"
  /\ network_thread_running' = FALSE
  /\ metrics_tree' = <<>>
  /\ hist' = <<>>
  /\ leaked' = leaked + Unreleased(metrics_tree, DOMAIN metrics_tree)
  /\ tree_null' = TRUE
  /\ pthread_mutex_unlock
  /\ host_pc' = "stopped"
  /\ UNCHANGED <<netVars, readVars, sigterm, network_thread_shutdown,
                 conf_delete>>

\* ------------------------------------------------------ the specification
Listener ==
  \/ NetInit \/ NetWhile \/ NetPoll \/ NetPollReady \/ NetPollError
  \/ NetRecvFail \/ NetRecv \/ NetParseLine \/ NetLock \/ NetApply

Reader ==
  \/ ReadLock \/ ReadNoTree \/ ReadIterate \/ ReadDelete
  \/ ReadUnlock

Host ==
  \/ statsd_config \/ InitLock \/ InitFail \/ InitDone \/ ShutdownLock
  \/ ShutdownJoin

Next == Listener \/ Reader \/ Host \/ SignalDeliver

Spec == Init /\ [][Next]_vars

\* The threads run on: every step of the network thread, of a read in
\* progress and of an init or a shutdown in progress is eventually taken when
\* it stays possible, and a signal sent is delivered.  Datagrams may stop
\* arriving, poll need not fail and the host need not call read or shutdown.
FairSpec ==
  /\ Init
  /\ [][Next]_vars
  /\ WF_vars(NetInit \/ NetWhile \/ NetPoll \/ NetRecvFail \/ NetRecv
             \/ NetParseLine \/ NetLock \/ NetApply)
  /\ WF_vars(ReadNoTree \/ ReadIterate \/ ReadDelete \/ ReadUnlock)
  /\ WF_vars(InitFail \/ InitDone \/ ShutdownJoin)
  /\ WF_vars(SignalDeliver)

\* The network thread alone, after an init that started it, with no read and no
\* shutdown going on beside it: what the parser and the store calls do with
\* the lines of a datagram.
ParseNext ==
  \/ InitLock \/ InitDone \/ NetInit \/ NetWhile \/ NetPoll \/ NetPollReady
  \/ NetRecvFail \/ ParseRecv \/ NetParseLine \/ NetLock \/ ParseApply

ParseSpec == Init /\ [][ParseNext]_vars

\* ------------------------------------------------------ int64_t arithmetic
\* Where the width of metric->value matters an int64_t is its two's complement
\* bit pattern: four limbs of 16 bits, the least significant first.  A
\* magnitude is such a sequence of any length.
Zero64 == <<0, 0, 0, 0>>
MaxInt64 == <<65535, 65535, 65535, 32767>>
MinInt64 == <<0, 0, 0, 32768>>

IsNegative(a) == a[4] >= 32768

\* The limbs of a + b + carry, as many as a has: a carry out of the last limb
\* is dropped.
RECURSIVE AddLimbs(_, _, _)
AddLimbs(a, b, carry) ==
  IF a = <<>> THEN <<>>
  ELSE LET sum == Head(a) + Head(b) + carry
       IN <<sum % 65536>> \o AddLimbs(Tail(a), Tail(b), sum \div 65536)

\* What the add instruction leaves for a + b: the sum modulo 2^64.
WrapAdd(a, b) == AddLimbs(a, b, 0)

\* a + b is not an int64_t: the signed addition overflows.
AddOverflows(a, b) ==
  /\ IsNegative(a) = IsNegative(b)
  /\ IsNegative(WrapAdd(a, b)) # IsNegative(a)

\* -a for a magnitude a of four limbs that is at most 2^63.
Negate(a) == AddLimbs([i \in 1..4 |-> 65535 - a[i]], Zero64, 1)

\* The limbs of a * k + carry, one more than a has.
RECURSIVE MulLimbs(_, _, _)
MulLimbs(a, k, carry) ==
  IF a = <<>> THEN <<carry>>
  ELSE LET p == Head(a) * k + carry
       IN <<p % 65536>> \o MulLimbs(Tail(a), k, p \div 65536)

\* The limbs 1..i of a \div k, for the limbs above i leaving the remainder rem.
RECURSIVE DivLimbs(_, _, _, _)
DivLimbs(a, k, i, rem) ==
  IF i = 0 THEN <<>>
  ELSE LET cur == rem * 65536 + a[i]
       IN Append(DivLimbs(a, k, i - 1, cur % k), cur \div k)

\* The magnitude, in five limbs, of a string of up to 24 decimal digits.
RECURSIVE DigitsLimbs(_)
DigitsLimbs(s) ==
  IF s = <<>> THEN <<0, 0, 0, 0, 0>>
  ELSE SubSeq(MulLimbs(DigitsLimbs(SubSeq(s, 1, Len(s) - 1)), 10,
                       DigitVal[s[Len(s)]]), 1, 5)

\* A magnitude of five limbs is at most LLONG_MAX.
FitsInt64(m) == m[5] = 0 /\ m[4] < 32768

\* parse_value (str, &v, DS_TYPE_DERIVE) at the width of derive_t: strtoll,
\* which returns LLONG_MAX or LLONG_MIN for a number out of range.
parse_value_derive_int64(s) ==
  LET signed == Len(s) > 0 /\ s[1] \in {"+", "-"}
      body == IF signed THEN Tail(s) ELSE s
      m == DigitsLimbs(body)
  IN IF ~AllDigits(body) THEN [status |-> -1, derive |-> Zero64]
     ELSE IF signed /\ s[1] = "-"
     THEN [status |-> 0,
           derive |-> IF FitsInt64(m) THEN Negate(SubSeq(m, 1, 4))
                      ELSE MinInt64]
     ELSE [status |-> 0,
           derive |-> IF FitsInt64(m) THEN SubSeq(m, 1, 4) ELSE MaxInt64]

\* (int64_t) (((gauge_t) value.derive) / scale.gauge), line 192, for a value
\* of at least 1 and the rate num / den: the quotient when it is an int64_t;
\* the conversion of a double out of the range of int64_t is undefined, and
\* yields LLONG_MIN (x86) or LLONG_MAX (ARM).  The value and the quotient are
\* taken to have at most 53 significant bits, so that the double holds them
\* exactly.
CounterDelta(value, num, den) ==
  LET q == DivLimbs(MulLimbs(value, den, 0), num, 5, 0)
  IN IF FitsInt64(q) THEN {SubSeq(q, 1, 4)} ELSE {MinInt64, MaxInt64}

\* statsd_handle_counter at the width of int64_t, up to its call of
\* statsd_metric_add: the calls it can make.
statsd_handle_counter_int64(name, value_str, extra) ==
  IF extra # <<>> /\ (extra[1] = <<>> \/ extra[1][1] # "@") THEN {NoCall(-1)}
  ELSE
    LET scale == IF extra # <<>> THEN parse_value_gauge(Tail(extra[1]))
                 ELSE [status |-> 0, num |-> 1, den |-> 1]
        value == parse_value_derive_int64(value_str)
    IN IF scale.status # 0 THEN {NoCall(scale.status)}
       ELSE IF scale.num <= 0 \/ scale.num > scale.den THEN {NoCall(-1)}
       ELSE IF value.status # 0 THEN {NoCall(value.status)}
       ELSE IF IsNegative(value.derive) \/ value.derive = Zero64
       THEN {NoCall(-1)}
       ELSE {Call("metric_add", 0, MakeKey("c", name), d, <<>>, STATSD_COUNTER) :
               d \in CounterDelta(value.derive, scale.num, scale.den)}

\* statsd_parse_line with the counter handler at the width of int64_t.
statsd_parse_line_int64(line) ==
  LET f == LineFields(line)
  IN IF f.bar # 0 /\ f.colon # 0 /\ f.type = <<"c">>
     THEN statsd_handle_counter_int64(f.name, f.value, f.extra)
     ELSE {statsd_parse_line(line)}

\* statsd_metric_add, between its lock and its unlock, with metric->value +=
\* delta as the add instruction computes it.
statsd_metric_add_int64(tree, name, delta, type, alloc) ==
  IF HasKey(tree, name)
  THEN [status |-> 0,
        tree |-> [tree EXCEPT ![FindKey(tree, name)] =
                    [@ EXCEPT !.value = WrapAdd(@, delta),
                              !.updates_num = @ + 1]]]
  ELSE statsd_metric_set_unsafe(tree, name, delta, type, alloc)

\* Counter lines with deltas of 1 and of 2^62, plain and sampled at 0.5.
WideLines ==
  { <<"a", ":", "1", "|", "c">>,
    <<"a", ":", "4", "6", "1", "1", "6", "8", "6", "0", "1", "8", "4", "2", "7", "3", "8", "7", "9", "0", "4", "|", "c">>,
    <<"a", ":", "1", "|", "c", "|", "@", "0", ".", "5">>,
    <<"a", ":", "4", "6", "1", "1", "6", "8", "6", "0", "1", "8", "4", "2", "7", "3", "8", "7", "9", "0", "4", "|", "c", "|", "@", "0", ".", "5">> }

\* statsd_network_read for payloads made of WideLines.
WideRecv ==
  /\ net_pc = "read"
  /\ \E n \in 1..(MaxLines - nlines) :
       \E d \in DatagramsOf(WideLines, n) : statsd_network_read(d, n)
  /\ UNCHANGED parseVars

\* statsd_parse_buffer: the next line is parsed at the width of int64_t.
WideParseLine ==
  /\ net_pc = "parse"
  /\ LET tok == strtok_r(buffer)
     IN \E c \in statsd_parse_line_int64(tok[1]) :
          /\ buffer' = IF strtok_r(tok[2]) = <<>> THEN <<>> ELSE tok[2]
          /\ call' = IF c.fn = "none" THEN NoCall(0) ELSE c
          /\ net_pc' = IF c.fn = "none" THEN NextPc(tok[2], ready) ELSE "lock"
  /\ UNCHANGED <<storeVars, hostVars, readVars, parseVars, metrics_lock, sigterm,
                 fds_num, ready, nlines>>

\* statsd_metric_add for a counter under the lock, and its unlock.  The
\* history keeps no sums here.
WideApply ==
  /\ net_pc = "locked"
  /\ call.fn = "metric_add"
  /\ \E alloc \in AllocFaults :
       LET r == statsd_metric_add_int64(metrics_tree, call.key, call.value,
                                        call.type, alloc)
       IN /\ metrics_tree' = r.tree
          /\ hist' = [k \in DOMAIN r.tree |->
                        IF k \in DOMAIN hist THEN hist[k] ELSE FreshHist]
  /\ call' = NoCall(0)
  /\ pthread_mutex_unlock
  /\ net_pc' = NextPc(buffer, ready)
  /\ UNCHANGED <<hostVars, readVars, parseVars, sigterm, fds_num, ready,
                 buffer, nlines, leaked>>

\* metric->value += delta overflows in a build that traps on signed overflow:
\* the process is aborted inside the call, the lock never released.
WideTrap ==
  /\ net_pc = "locked"
  /\ call.fn = "metric_add"
  /\ HasKey(metrics_tree, call.key)
  /\ AddOverflows(metrics_tree[FindKey(metrics_tree, call.key)].value,
                  call.value)
  /\ net_pc' = "aborted"
  /\ UNCHANGED <<storeVars, hostVars, readVars, parseVars, metrics_lock,
                 sigterm, fds_num, ready, buffer, call, nlines>>

\* The network thread fed with counter samples near the ends of int64_t, and
\* the read callback beside it.
WidthNext ==
  \/ InitLock \/ InitDone \/ NetInit \/ NetWhile \/ NetPoll \/ NetPollReady
  \/ WideRecv \/ WideParseLine \/ NetLock \/ WideApply \/ WideTrap
  \/ ReadLock \/ ReadNoTree \/ ReadIterate \/ ReadDelete \/ ReadUnlock

WidthSpec == Init /\ [][WidthNext]_vars

\* ------------------------------------------------------------ the claims
\* The flush in progress has dispatched its values (the iteration is over).
FlushPassed == read_pc \in {"delete", "unlock"}

\* The vl.type statsd_metric_submit_unsafe gives a metric type.
TypeName(type) ==
  CASE type = STATSD_GAUGE -> "gauge" [] type = STATSD_TIMER -> "latency"
    [] type = STATSD_SET -> "objects" [] OTHER -> "derive"

\* The members of a set metric.
Members(metric) == IF metric.set = <<>> THEN {} ELSE metric.set[1]

\* C1: every value a flush emits for a timer that had samples in the window is
\* the arithmetic mean of the samples applied to the key since the previous
\* flush: num / den = wsum / wcnt.
C1_TimerMeanOfWindow ==
  \A i \in DOMAIN emitted :
    (emitted[i].type = "latency" /\ audit[i].h.wcnt > 0) =>
      /\ ~emitted[i].nan
      /\ emitted[i].num * audit[i].h.wcnt = audit[i].h.wsum * emitted[i].den

\* The records of the store the flush found that it does not evict.
KeptAtStart ==
  {k \in DOMAIN startStore :
     ~(startStore[k].updates_num = 0 /\ conf_delete[startStore[k].type])}

\* The values the flush emitted for the record with key k.
EmittedFor(k) ==
  {i \in DOMAIN emitted :
     /\ emitted[i].type_instance = StripTag(k)
     /\ emitted[i].type = TypeName(startStore[k].type)}

\* C2 as stated: a flush emits exactly one value for every record that was in
\* the store when it started, the records it evicts included (looked at for
\* the flushes that find only records with a sample applied).
C2_EveryRecordEmitted ==
  (read_pc = "delete" /\ \A k \in DOMAIN hist : hist[k].applied >= 1) =>
    /\ Len(emitted) = Cardinality(DOMAIN startStore)
    /\ \A k \in DOMAIN startStore : Cardinality(EmittedFor(k)) = 1

\* C2 as amended: a flush emits exactly one value, named by the key without its
\* tag, for every record that was in the store when it started and that it does
\* not evict, and none for a record it evicts.
C2_KeptRecordsEmitted ==
  FlushPassed =>
    /\ Len(emitted) = Cardinality(KeptAtStart)
    /\ \A k \in KeptAtStart : Cardinality(EmittedFor(k)) = 1
    /\ \A k \in DOMAIN startStore \ KeptAtStart : EmittedFor(k) = {}

C2_Witness ==
  /\ read_pc = "unlock"
  /\ emitted # <<>>
  /\ to_be_deleted # <<>>

\* C3: once shutdown has set the flag and signalled the network thread, the
\* thread exits, the join completes and shutdown returns.
C3_ShutdownReturns == (host_pc = "join") ~> (host_pc = "stopped")

\* C4: every record in the store has had at least one sample applied to it
\* successfully.
C4_NoEmptyRecord ==
  \A k \in DOMAIN metrics_tree : hist[k].applied >= 1

\* C5: the value a flush emits for a counter is the sum of the rate-adjusted
\* deltas applied to the key since the record was created, and once the flush
\* has passed every record's updates_num is 0.
C5_CounterSum ==
  /\ \A i \in DOMAIN emitted :
       emitted[i].type = "derive" =>
         /\ ~emitted[i].nan
         /\ emitted[i].den = 1
         /\ emitted[i].num = audit[i].h.total
  /\ FlushPassed =>
       \A k \in DOMAIN metrics_tree : metrics_tree[k].updates_num = 0

C5_Witness ==
  \E i \in DOMAIN emitted :
    /\ emitted[i].type = "derive"
    /\ audit[i].h.applied = 2
    /\ audit[i].h.wcnt = 1

\* C6: the value a flush emits for a set is the number of distinct members
\* applied to the key since the previous flush; the record counts every
\* sample, duplicates included; after the flush the membership is empty.
C6_SetCardinality ==
  /\ \A i \in DOMAIN emitted :
       emitted[i].type = "objects" =>
         /\ ~emitted[i].nan
         /\ emitted[i].den = 1
         /\ emitted[i].num = Cardinality(audit[i].h.wmem)
  /\ \A k \in DOMAIN metrics_tree :
       metrics_tree[k].type = STATSD_SET =>
         /\ metrics_tree[k].updates_num = hist[k].wcnt
         /\ Members(metrics_tree[k]) = hist[k].wmem
  /\ read_pc = "unlock" =>
       \A k \in DOMAIN metrics_tree :
         metrics_tree[k].type = STATSD_SET => Members(metrics_tree[k]) = {}

C6_Witness ==
  \E i \in DOMAIN emitted :
    /\ emitted[i].type = "objects"
    /\ emitted[i].num = 1
    /\ audit[i].h.wcnt = 2

\* C7: a gauge that has had an absolute sample holds that sample plus the
\* relative samples applied since, and a flush emits that value.
C7_GaugeAbsolutePlusDeltas ==
  /\ \A k \in DOMAIN metrics_tree :
       (metrics_tree[k].type = STATSD_GAUGE /\ hist[k].gabs # <<>>) =>
         metrics_tree[k].value = hist[k].gabs[1]
  /\ \A i \in DOMAIN emitted :
       (emitted[i].type = "gauge" /\ audit[i].h.gabs # <<>>) =>
         /\ ~emitted[i].nan
         /\ emitted[i].den = 1
         /\ emitted[i].num = audit[i].h.gabs[1]

C7_Witness ==
  \E i \in DOMAIN emitted :
    /\ emitted[i].type = "gauge"
    /\ audit[i].h.gabs = <<4>>
    /\ audit[i].h.applied = 2

\* The key was removed by a flush before.
WasEvicted(k) == \E e \in evicted : StrCaseEq(e, k)

\* C8: a record that is idle when a flush starts, of a kind whose eviction is
\* enabled, is not in the store once the flush has passed; a record created
\* again after an eviction holds, after its first sample, updates_num 1 and
\* the value (or the one member) of that sample alone.
C8_EvictedThenFresh ==
  /\ read_pc = "unlock" =>
       \A k \in DOMAIN startStore :
         (startStore[k].updates_num = 0 /\ conf_delete[startStore[k].type])
           => ~HasKey(metrics_tree, k)
  /\ \A k \in DOMAIN metrics_tree :
       (WasEvicted(k) /\ hist[k].applied = 1 /\ hist[k].wcnt = 1) =>
         /\ metrics_tree[k].updates_num = 1
         /\ metrics_tree[k].type # STATSD_SET =>
              metrics_tree[k].value = hist[k].total
         /\ metrics_tree[k].type = STATSD_SET =>
              /\ Members(metrics_tree[k]) = hist[k].wmem
              /\ Cardinality(Members(metrics_tree[k])) = 1

C8_Witness ==
  \E k \in DOMAIN metrics_tree :
    /\ WasEvicted(k)
    /\ hist[k].applied = 1
    /\ metrics_tree[k].updates_num = 1

\* C9: a record that had a sample in the window, or whose kind has eviction
\* disabled, is still in the store once the flush has passed.
C9_OnlyIdleEvicted ==
  read_pc = "unlock" =>
    \A k \in DOMAIN startStore :
      (startStore[k].updates_num > 0 \/ ~conf_delete[startStore[k].type])
        => k \in DOMAIN metrics_tree

C9_Witness ==
  /\ read_pc = "unlock"
  /\ to_be_deleted # <<>>
  /\ \E k \in DOMAIN startStore :
       /\ startStore[k].updates_num = 0
       /\ ~conf_delete[startStore[k].type]
       /\ k \in DOMAIN metrics_tree

\* The keys noted for deletion.
Noted == {to_be_deleted[i] : i \in DOMAIN to_be_deleted}

\* C10: while a flush holds the store no store call of the network thread is
\* under way, the store is as the pass left it, and no record noted for
\* deletion has had a sample applied since.
C10_FlushAtomic ==
  /\ read_pc # "idle" => net_pc # "locked"
  /\ read_pc = "delete" =>
       /\ DOMAIN metrics_tree = DOMAIN startStore
       /\ \A k \in DOMAIN metrics_tree : metrics_tree[k].updates_num = 0
  /\ read_pc = "unlock" =>
       /\ DOMAIN metrics_tree = DOMAIN startStore \ Noted
       /\ \A k \in DOMAIN metrics_tree : metrics_tree[k].updates_num = 0

C10_Witness ==
  /\ read_pc = "delete"
  /\ to_be_deleted # <<>>
  /\ net_pc = "lock"

\* ------------------------------------------------------------ the parser
\* The lines of a payload: the maximal runs of characters other than CR and LF.
RECURSIVE LinesOf(_, _)
LinesOf(d, cur) ==
  IF d = <<>> THEN (IF cur = <<>> THEN <<>> ELSE <<cur>>)
  ELSE IF Head(d) \in {"\n", "\r"}
  THEN (IF cur = <<>> THEN <<>> ELSE <<cur>>) \o LinesOf(Tail(d), <<>>)
  ELSE LinesOf(Tail(d), Append(cur, Head(d)))

\* The fields of a line split at every "|".
RECURSIVE Fields(_, _)
Fields(l, cur) ==
  IF l = <<>> THEN <<cur>>
  ELSE IF Head(l) = "|" THEN <<cur>> \o Fields(Tail(l), <<>>)
  ELSE Fields(Tail(l), Append(cur, Head(l)))

\* s is a decimal integer with an optional sign.
IsInteger(s) ==
  \E i \in {0, 1} :
    /\ Len(s) > i
    /\ i = 1 => s[1] \in {"+", "-"}
    /\ \A j \in (i + 1)..Len(s) : s[j] \in DOMAIN DigitVal

\* s is "@" and a decimal number in (0, 1].
IsRate(s) ==
  /\ Len(s) > 1
  /\ s[1] = "@"
  /\ LET r == parse_value_gauge(Tail(s))
     IN r.status = 0 /\ 0 < r.num /\ r.num <= r.den

\* The line is one of those C11 lists: no "|", no ":" before the first "|", an
\* unknown kind, a rate on a line that is no counter, a rate without "@" or
\* outside (0, 1], a value that is no number, a counter delta below 1.
Malformed(l) ==
  LET f == Fields(l, <<>>)
      kind == f[2]
      value == SubSeq(f[1], StrRChr(f[1], ":") + 1, Len(f[1]))
  IN \/ Len(f) = 1
     \/ ":" \notin {f[1][i] : i \in DOMAIN f[1]}
     \/ kind \notin {<<"c">>, <<"g">>, <<"m", "s">>, <<"s">>}
     \/ Len(f) > 2 /\ kind # <<"c">>
     \/ Len(f) > 3
     \/ Len(f) = 3 /\ ~IsRate(f[3])
     \/ kind # <<"s">> /\ ~IsInteger(value)
     \/ kind = <<"c">> /\ parse_value_derive(value).derive < 1

\* C11: a step of the parser over a malformed line reports a failure, makes no
\* store call and leaves the store as it was.
C11_MalformedLineNoEffect ==
  [][(net_pc = "parse" /\ buffer' # buffer
        /\ Malformed(strtok_r(buffer)[1])) =>
       /\ statsd_parse_line(strtok_r(buffer)[1]).status # 0
       /\ call'.fn = "none"
       /\ net_pc' # "lock"
       /\ metrics_tree' = metrics_tree]_vars

C11_Witness ==
  /\ net_pc = "while"
  /\ buffer = <<>>
  /\ metrics_tree # <<>>
  /\ LET ls == LinesOf(datagram, <<>>)
     IN Len(ls) = 2 /\ ~Malformed(ls[1]) /\ Malformed(ls[2])

\* The store after the well-formed ones of the lines ls were applied to tree
\* in their order, the allocations of each ending as as says.
RECURSIVE ApplyLines(_, _, _)
ApplyLines(tree, ls, as) ==
  IF ls = <<>> THEN tree
  ELSE IF Malformed(Head(ls)) THEN ApplyLines(tree, Tail(ls), as)
  ELSE ApplyLines(StoreCall(tree, statsd_parse_line(Head(ls)), Head(as)).tree,
                  Tail(ls), Tail(as))

\* The network thread is through with the payload it received last.
DatagramDone ==
  /\ datagram # <<>>
  /\ buffer = <<>>
  /\ net_pc \in {"while", "poll", "wait", "read"}

\* C12: once a datagram is processed every well-formed line of it has made its
\* store call, and the store is the one it found with the well-formed lines
\* applied in their order.
C12_WellFormedLinesApplied ==
  DatagramDone =>
    LET ls == LinesOf(datagram, <<>>)
    IN /\ Len(allocs) = Cardinality({i \in DOMAIN ls : ~Malformed(ls[i])})
       /\ metrics_tree = ApplyLines(dstore, ls, allocs)

C12_Witness ==
  /\ DatagramDone
  /\ metrics_tree # dstore
  /\ LET ls == LinesOf(datagram, <<>>)
     IN Len(ls) = 2 /\ Malformed(ls[1]) /\ ~Malformed(ls[2])

\* ------------------------------------------------------------- the flush
\* C13 as stated: a flush emits the not-a-number value for every timer that was
\* in the store when it started and had no sample in the window.
C13_IdleTimerYieldsNaN ==
  FlushPassed =>
    \A k \in DOMAIN startStore :
      (startStore[k].type = STATSD_TIMER /\ startStore[k].updates_num = 0) =>
        \E i \in EmittedFor(k) : emitted[i].nan

\* C13 as amended: a value a flush emits for a timer with no sample in the
\* window is not-a-number, never a number; the flush emits it for every such
\* timer it keeps, and nothing for one it evicts.
C13_KeptIdleTimerYieldsNaN ==
  /\ \A i \in DOMAIN emitted :
       (emitted[i].type = "latency" /\ audit[i].h.wcnt = 0) => emitted[i].nan
  /\ FlushPassed =>
       \A k \in DOMAIN startStore :
         (startStore[k].type = STATSD_TIMER /\ startStore[k].updates_num = 0)
           => IF k \in KeptAtStart
              THEN \E i \in EmittedFor(k) : emitted[i].nan
              ELSE EmittedFor(k) = {}

C13_Witness ==
  \E i \in DOMAIN emitted :
    /\ emitted[i].type = "latency"
    /\ emitted[i].nan
    /\ audit[i].h.applied >= 1
    /\ audit[i].h.wcnt = 0

\* C14: when the network thread ends because no candidate could be bound,
\* the host has not been told that init succeeded.
C14_ZeroSocketsFatal ==
  [][(net_pc = "network_init" /\ net_pc' = "exited") =>
       host_pc' # "running"]_vars

\* C15: no allocation is left behind by an eviction or by shutdown, and after
\* shutdown the store is gone.
C15_AllReleased ==
  /\ leaked = 0
  /\ host_pc = "stopped" => (metrics_tree = <<>> /\ tree_null)

\* C16: shutdown never holds the store lock, waiting to join the network
\* thread, while that thread waits for the lock to apply a sample.
C16_NoShutdownDeadlock ==
  ~(host_pc = "join" /\ metrics_lock = "host" /\ net_pc = "lock")

\* C17: updates_num of every record is the number of samples applied to it
\* since the last flush (or since it was created), so it grows by one with
\* each and never drops in between; once a flush has done its work every
\* record left has updates_num 0 and every set left has no member.
C17_SampleCount ==
  /\ \A k \in DOMAIN metrics_tree :
       metrics_tree[k].updates_num = hist[k].wcnt
  /\ read_pc = "unlock" =>
       \A k \in DOMAIN metrics_tree :
         /\ metrics_tree[k].updates_num = 0
         /\ Members(metrics_tree[k]) = {}

C17_Witness ==
  \E k \in DOMAIN metrics_tree :
    /\ hist[k].applied = 2
    /\ metrics_tree[k].updates_num = 1

\* C18: a flush leaves the type and the value of every record it keeps as
\* they were, adds no key and removes only the keys it noted for deletion.
C18_FlushFrame ==
  FlushPassed =>
    /\ DOMAIN metrics_tree \subseteq DOMAIN startStore
    /\ (DOMAIN startStore \ DOMAIN metrics_tree) \subseteq Noted
    /\ \A k \in DOMAIN metrics_tree :
         /\ metrics_tree[k].type = startStore[k].type
         /\ metrics_tree[k].value = startStore[k].value

C18_Witness ==
  /\ read_pc = "unlock"
  /\ \E k \in DOMAIN metrics_tree :
       /\ startStore[k].updates_num > 0
       /\ metrics_tree[k].value # 0
       /\ metrics_tree[k].updates_num = 0

\* The metric type a key's tag stands for.
TagKind(key) ==
  CASE key[1] = "c" -> STATSD_COUNTER [] key[1] = "t" -> STATSD_TIMER
    [] key[1] = "g" -> STATSD_GAUGE [] key[1] = "s" -> STATSD_SET

\* C19: the type of every record is the one its key's tag stands for; a store
\* call leaves every record of another type than the sample's as it is, and
\* no record ever changes its type.
C19_KindByTag ==
  /\ [](\A k \in DOMAIN metrics_tree : metrics_tree[k].type = TagKind(k))
  /\ [][\A k \in DOMAIN metrics_tree :
          /\ (net_pc = "locked" /\ metrics_tree[k].type # call.type) =>
               (k \in DOMAIN metrics_tree' /\ metrics_tree'[k] = metrics_tree[k])
          /\ k \in DOMAIN metrics_tree' =>
               metrics_tree'[k].type = metrics_tree[k].type]_vars

C19_Witness ==
  /\ Cardinality(DOMAIN metrics_tree) = 2
  /\ \A k, l \in DOMAIN metrics_tree :
       /\ StrCaseEq(StripTag(k), StripTag(l))
       /\ k # l => metrics_tree[k].type # metrics_tree[l].type
       /\ hist[k].applied = 1

\* C20: the store lock is held only by a thread that is inside a store call,
\* a read, an init or a shutdown; a call that has returned, whatever its
\* way out, holds it no more, and with none of them under way it is free.
C20_LockReleasedOnReturn ==
  /\ metrics_lock = "net" => net_pc = "locked"
  /\ metrics_lock = "read" => read_pc # "idle"
  /\ metrics_lock = "host" => host_pc \in {"init", "join"}
  /\ (net_pc # "locked" /\ read_pc = "idle"
        /\ host_pc \notin {"init", "join"}) => metrics_lock = "free"

C20_Witness ==
  /\ metrics_lock = "free"
  /\ host_pc = "running"
  /\ \E k \in DOMAIN metrics_tree : hist[k].applied = 0

\* ---------------------------------------------------------- the counter
\* a < b for two int64_t.
Less64(a, b) ==
  IF IsNegative(a) # IsNegative(b) THEN IsNegative(a)
  ELSE \E i \in 1..4 : a[i] < b[i] /\ \A j \in (i + 1)..4 : a[j] = b[j]

\* C21: the value of every counter record is at least 1, and no step makes
\* the value of a counter record that stays in the store smaller.
C21_CounterNeverWraps ==
  /\ [](\A k \in DOMAIN metrics_tree :
          metrics_tree[k].type = STATSD_COUNTER =>
            ~Less64(metrics_tree[k].value, <<1, 0, 0, 0>>))
  /\ [][\A k \in DOMAIN metrics_tree \cap DOMAIN metrics_tree' :
          metrics_tree[k].type = STATSD_COUNTER =>
            ~Less64(metrics_tree'[k].value, metrics_tree[k].value)]_vars

====
